---------------------------- MODULE Spec2Model ----------------------------
(***************************************************************************)
(* Model of backend/main.py of unibrowse: the token trust store            *)
(* (auth_tokens.txt), the lru_cache in front of verify_token, and the      *)
(* sync / list request handlers working on the browsers and bookmarks      *)
(* tables under db_lock.                                                   *)
(***************************************************************************)
EXTENDS Integers, Sequences, FiniteSets, TLC

\* Python's None, and the absence of a key in a JSON object (dict).
None == "<None>"
Missing == "<missing>"

Range(s) == {s[i] : i \in 1..Len(s)}

(***************************************************************************)
(* Bounds of the model.                                                    *)
(***************************************************************************)
\* How many tokens create_token hands out in one run.
MaxIssued == 1
\* Tokens secrets.token_urlsafe can return (each is returned at most once).
TokenPool == {"t1", "t2"}
\* Strings a client can present to verify_token besides tokens of the pool.
Garbage == {"garbage", "", None}
Candidates == TokenPool \cup Garbage

\* maxsize of the lru_cache on verify_token.
LruMaxSize == 128

\* Longest list payload["bookmarks"] a sync request carries.
MaxBatch == 2
\* Sync requests (each id is one POST /api/sync/bookmarks) and list requests
\* (each id is one GET /api/bookmarks) of a run; they run concurrently.
SyncReqs == {"s1", "s2"}
ListReqs == {"q1"}
Reqs == SyncReqs \cup ListReqs

\* Bookmark objects a client sends. A key the object does not have is Missing.
Bookmark(url, title, folder_path, created_at) ==
    [url |-> url, title |-> title, folder_path |-> folder_path,
     created_at |-> created_at]
\* Well-formed ones: the first two share the key (http://a, ""), the others
\* differ from it in folder_path or in url.
GoodBookmarks ==
    { Bookmark("http://a", "A", Missing, "2024-01-01"),
      Bookmark("http://a", "B", None, None),
      Bookmark("http://a", "A", "/f", Missing),
      Bookmark("http://b", Missing, "", "2025-05-05") }
\* One that validate_sync_payload refuses (empty url).
BadBookmark == Bookmark("", "A", "", None)

\* The lists of up to n different elements of S.
RECURSIVE SeqsUpTo(_, _)
SeqsUpTo(S, n) ==
    IF n = 0 THEN {<<>>}
    ELSE LET shorter == SeqsUpTo(S, n - 1)
         IN  shorter \cup
             UNION { {Append(q, x) : x \in S \ Range(q)} :
                     q \in {t \in shorter : Len(t) = n - 1} }

Body(browser_name, device_name, profile_name, bms) ==
    [browser_name |-> browser_name, device_name |-> device_name,
     profile_name |-> profile_name, bookmarks |-> bms]
\* JSON bodies of sync requests: two identity triples (the empty string is a
\* JSON string too), every batch of up to MaxBatch different well-formed
\* bookmarks, and two malformed bodies.
Payloads ==
    {Body(n, "laptop", "default", bms) :
        n \in {"chrome", ""}, bms \in SeqsUpTo(GoodBookmarks, MaxBatch)}
    \cup {Body("chrome", "laptop", "default", <<BadBookmark>>),
          Body("chrome", Missing, "default", <<>>)}
\* The bodies sent while a list request runs too: batches of the first three
\* bookmarks for one identity, the first bookmark or none for the other.
FewPayloads ==
    {Body("chrome", "laptop", "default", bms) :
        bms \in SeqsUpTo({Bookmark("http://a", "A", Missing, "2024-01-01"),
                          Bookmark("http://a", "B", None, None),
                          Bookmark("http://a", "A", "/f", Missing)}, MaxBatch)}
    \cup {Body("", "laptop", "default", bms) :
            bms \in SeqsUpTo({Bookmark("http://a", "A", Missing, "2024-01-01")}, MaxBatch)}
NoPayload == Body(Missing, Missing, Missing, <<>>)

\* Authorization headers, as the words authorization.split() gives; <<>> is a
\* request without the header.
Headers == {<<>>, <<"Bearer", "t1">>, <<"Bearer", "garbage">>, <<"Token", "t1">>}

VARIABLES
    tokenFile,      \* lines of auth_tokens.txt, in file order
    fileExists,     \* whether auth_tokens.txt exists
    cache,          \* lru_cache of verify_token: <<key, result>>, least recent first
    issued,         \* tokens create_token has returned so far
    lastCall,       \* the latest issue / verify call and what it returned
    browsers,       \* committed rows of table browsers; a row's id is its index
    bookmarks,      \* committed rows of table bookmarks; a row's id is its index
    db_lock,        \* "free", or the request holding db_lock
    clock,          \* the latest value datetime.utcnow() has returned
    pc,             \* where each request is in its handler
    payload,        \* the JSON body a sync request was called with
    browser_id,     \* local browser_id of sync_bookmarks
    now,            \* local now of sync_bookmarks
    idx,            \* position of the for loop over payload["bookmarks"]
    counts,         \* locals inserted and updated of sync_bookmarks
    txn,            \* table bookmarks as the request's open transaction sees it
    pre,            \* table bookmarks as committed when the batch began
    resp            \* the response each request got

authVars == <<tokenFile, fileExists, cache, issued, lastCall>>
dbVars == <<browsers, bookmarks, db_lock, clock>>
reqVars == <<pc, payload, browser_id, now, idx, counts, txn, pre, resp>>
vars == <<authVars, dbVars, reqVars>>

(***************************************************************************)
(* Token management (main.py 60-94).                                       *)
(***************************************************************************)
\* hashlib.sha256(token.encode()).hexdigest(): one-way and collision free
\* on the strings of the model.
hash_token(token) == "sha256(" \o token \o ")"

\* A load_valid_tokens that does not notice a failed read and answers from
\* the lines it holds.
load_valid_tokens_failopen(exists, file, readFails) ==
    IF ~exists THEN {} ELSE {l \in Range(file) : l # ""}

\* The set of lines load_valid_tokens returns: empty when the file does not
\* exist or when reading it raises.
load_valid_tokens(exists, file, readFails) ==
    IF ~exists THEN {}
    ELSE IF readFails THEN {}
    ELSE {l \in Range(file) : l # ""}

\* The body of verify_token, without its cache.
verify_token_body(token, exists, file, readFails) ==
    IF token = None \/ token = "" THEN FALSE
    ELSE hash_token(token) \in load_valid_tokens(exists, file, readFails)

\* Whether the body of verify_token gets as far as opening the file.
ReadsFile(token, exists) == token # None /\ token # "" /\ exists

CacheIndex(c, key) == {i \in 1..Len(c) : c[i][1] = key}
CacheHit(c, key) == CacheIndex(c, key) # {}
CacheValue(c, key) == c[CHOOSE i \in CacheIndex(c, key) : TRUE][2]
Without(c, key) == SelectSeq(c, LAMBDA e : e[1] # key)

\* functools.lru_cache: a hit returns the stored result and makes the entry
\* the most recent; a miss stores the computed result, evicting the least
\* recent entry once maxsize entries are held.
CacheAfter(c, key, val) ==
    IF CacheHit(c, key) THEN Append(Without(c, key), <<key, CacheValue(c, key)>>)
    ELSE IF Len(c) >= LruMaxSize THEN Append(Tail(c), <<key, val>>)
    ELSE Append(c, <<key, val>>)

\* verify_token as callers see it (with @lru_cache).
verify_token(token, readFails) ==
    IF CacheHit(cache, token) THEN CacheValue(cache, token)
    ELSE verify_token_body(token, fileExists, tokenFile, readFails)

\* Digests a fresh, successful read of the trust store gives.
StoreDigests == load_valid_tokens(fileExists, tokenFile, FALSE)

\* save_token: append one line; an exception is printed and swallowed.
\* failAt: "none", "open" (the file cannot be opened for append) or "write"
\* (open created the file, the write itself failed).
save_token_file(file, token_hash, failAt) ==
    IF failAt = "none" THEN Append(file, token_hash) ELSE file

save_token_exists(exists, failAt) ==
    IF failAt = "open" THEN exists ELSE TRUE

NoCall == [op |-> "none"]

\* POST /api/auth/token (create_token): generate, hash, save, return.
create_token(failAt) ==
    /\ Cardinality(issued) < MaxIssued
    /\ \E token \in TokenPool \ issued :
        /\ tokenFile' = save_token_file(tokenFile, hash_token(token), failAt)
        /\ fileExists' = save_token_exists(fileExists, failAt)
        /\ issued' = issued \cup {token}
        /\ lastCall' = [op |-> "issue", token |-> token, status |-> 200,
                        saved |-> (failAt = "none"),
                        storeBefore |-> StoreDigests]
    /\ UNCHANGED <<cache, dbVars, reqVars>>

\* A call verify_token(candidate).
VerifyCall(candidate, readFails) ==
    /\ cache' = CacheAfter(cache, candidate,
                           verify_token_body(candidate, fileExists, tokenFile, readFails))
    /\ lastCall' = [op |-> "verify", arg |-> candidate,
                    result |-> verify_token(candidate, readFails),
                    hit |-> CacheHit(cache, candidate),
                    readFailed |-> (~CacheHit(cache, candidate)
                                    /\ ReadsFile(candidate, fileExists) /\ readFails),
                    present |-> (candidate # None
                                 /\ hash_token(candidate) \in StoreDigests)]
    /\ UNCHANGED <<tokenFile, fileExists, issued, dbVars, reqVars>>

(***************************************************************************)
(* The authentication dependency (main.py 96-120).                         *)
(***************************************************************************)
\* str.lower() on the scheme words of the model.
Lower(w) ==
    CASE w = "Bearer" -> "bearer"
      [] w = "Token" -> "token"
      [] OTHER -> w

\* Whether the header is "Bearer <token>" in any letter case of the scheme.
WellFormed(authorization) ==
    Len(authorization) = 2 /\ Lower(authorization[1]) = "bearer"

\* A dependency that checks the form of the header and not the token.
get_token_from_header_open(authorization, readFails) ==
    IF authorization = <<>> THEN 401
    ELSE IF Len(authorization) # 2 \/ Lower(authorization[1]) # "bearer" THEN 401
    ELSE 200

\* get_token_from_header: 200 when the header is "Bearer <token>" and
\* verify_token accepts the token, 401 otherwise.
get_token_from_header(authorization, readFails) ==
    IF authorization = <<>> THEN 401
    ELSE IF Len(authorization) # 2 \/ Lower(authorization[1]) # "bearer" THEN 401
    ELSE IF ~verify_token(authorization[2], readFails) THEN 401
    ELSE 200

\* The lru_cache after get_token_from_header: verify_token is called only
\* for a well-formed header.
CacheAfterHeader(authorization, readFails) ==
    IF Len(authorization) # 2 \/ Lower(authorization[1]) # "bearer" THEN cache
    ELSE CacheAfter(cache, authorization[2],
                    verify_token_body(authorization[2], fileExists, tokenFile, readFails))

(***************************************************************************)
(* Payload validation (main.py 190-223).                                   *)
(***************************************************************************)
\* isinstance(v, (str, list)) on the values of the model.
IsStrOrList(v) == v \notin {Missing, None}
IsStr(v) == v \notin {Missing, None}

\* validate_sync_payload: TRUE when it raises nothing.
validate_sync_payload(p) ==
    /\ \A f \in {"browser_name", "device_name", "profile_name"} : IsStrOrList(p[f])
    /\ \A i \in 1..Len(p.bookmarks) :
        LET b == p.bookmarks[i] IN
        /\ b.url # Missing /\ b.url # None /\ b.url # "" /\ IsStr(b.url)
        /\ \A f \in {"title", "folder_path", "created_at"} :
            b[f] = Missing \/ b[f] = None \/ IsStr(b[f])

(***************************************************************************)
(* The tables (main.py 27-56) and the statements run on them.              *)
(***************************************************************************)
\* dict.get(key, default)
Get(b, key, default) == IF b[key] = Missing THEN default ELSE b[key]
\* Python's  x or ""
OrEmpty(x) == IF x = None \/ x = "" THEN "" ELSE x
\* SQL IFNULL(x, '')
IfNull(x) == IF x = None THEN "" ELSE x
\* created_at = ? in place of COALESCE: the incoming value always wins.
Coalesce_overwrite(x, y) == x
\* SQL COALESCE(x, y)
Coalesce(x, y) == IF x # None THEN x ELSE y

\* A lookup that never finds a row.
SelectBrowser_none(rows, triple) == {}

\* SELECT id FROM browsers WHERE name = ? AND device_name = ? AND profile_name = ?
SelectBrowser(rows, triple) == {i \in 1..Len(rows) : rows[i] = triple}

Triple(p) == <<p.browser_name, p.device_name, p.profile_name>>

\* A lookup by browser_id and url alone.
SelectBookmark_urlonly(rows, bid, url, folder) ==
    {i \in 1..Len(rows) : rows[i].browser_id = bid /\ rows[i].url = url}

\* SELECT id FROM bookmarks WHERE browser_id = ? AND url = ?
\*                            AND IFNULL(folder_path, '') = ?
SelectBookmark(rows, bid, url, folder) ==
    {i \in 1..Len(rows) :
        /\ rows[i].browser_id = bid
        /\ rows[i].url = url
        /\ IfNull(rows[i].folder_path) = folder}

\* An INSERT of b.get("folder_path", "") without the  or "".
InsertedFolder_raw(b) == Get(b, "folder_path", "")
\* The folder_path the INSERT stores.
InsertedFolder(b) == OrEmpty(Get(b, "folder_path", ""))

\* A loop body that leaves a row it finds as it is (INSERT OR IGNORE).
ApplyRecord_keep(rows, bid, b, ts) ==
    IF SelectBookmark(rows, bid, b.url, OrEmpty(Get(b, "folder_path", ""))) # {}
    THEN rows
    ELSE Append(rows,
                [browser_id |-> bid,
                 title |-> Get(b, "title", ""),
                 url |-> b.url,
                 folder_path |-> InsertedFolder(b),
                 created_at |-> Get(b, "created_at", None),
                 updated_at |-> ts])

\* One pass of the for loop of sync_bookmarks over record b: the table as
\* the transaction sees it afterwards.
ApplyRecord(rows, bid, b, ts) ==
    LET found == SelectBookmark(rows, bid, b.url, OrEmpty(Get(b, "folder_path", "")))
    IN  IF found # {}
        THEN LET id == CHOOSE i \in found : \A j \in found : i <= j
             IN  [rows EXCEPT ![id] =
                    [@ EXCEPT !.title = Get(b, "title", ""),
                              !.created_at = Coalesce(Get(b, "created_at", None), @),
                              !.updated_at = ts]]
        ELSE Append(rows,
                    [browser_id |-> bid,
                     title |-> Get(b, "title", ""),
                     url |-> b.url,
                     folder_path |-> InsertedFolder(b),
                     created_at |-> Get(b, "created_at", None),
                     updated_at |-> ts])

\* A loop that counts every record as an insert.
IsUpdate_never(rows, bid, b) == FALSE

\* Whether that pass counts as an update (row found) or as an insert.
IsUpdate(rows, bid, b) ==
    SelectBookmark(rows, bid, b.url, OrEmpty(Get(b, "folder_path", ""))) # {}

\* The whole loop over a batch.
RECURSIVE Reconcile(_, _, _, _)
Reconcile(rows, bid, batch, ts) ==
    IF batch = <<>> THEN rows
    ELSE Reconcile(ApplyRecord(rows, bid, Head(batch), ts), bid, Tail(batch), ts)

\* The value of updated the whole loop ends with; inserted is the rest.
RECURSIVE Updated(_, _, _, _)
Updated(rows, bid, batch, ts) ==
    IF batch = <<>> THEN 0
    ELSE (IF IsUpdate(rows, bid, Head(batch)) THEN 1 ELSE 0)
         + Updated(ApplyRecord(rows, bid, Head(batch), ts), bid, Tail(batch), ts)

\* The rows of SELECT ... FROM bookmarks b JOIN browsers br ON br.id = b.browser_id
JoinRow(bms, brs, i) ==
    [id |-> i,
     browser_name |-> brs[bms[i].browser_id][1],
     device_name |-> brs[bms[i].browser_id][2],
     profile_name |-> brs[bms[i].browser_id][3],
     title |-> bms[i].title, url |-> bms[i].url,
     folder_path |-> bms[i].folder_path,
     created_at |-> bms[i].created_at, updated_at |-> bms[i].updated_at]

\* ORDER BY b.updated_at DESC: every order of the rows S in which updated_at
\* does not increase; SQL leaves the order of rows with equal updated_at open.
RECURSIVE OrderByUpdatedDesc(_, _, _)
OrderByUpdatedDesc(bms, brs, S) ==
    IF S = {} THEN {<<>>}
    ELSE UNION { {<<JoinRow(bms, brs, i)>> \o rest :
                    rest \in OrderByUpdatedDesc(bms, brs, S \ {i})} :
                 i \in {j \in S : \A k \in S : bms[j].updated_at >= bms[k].updated_at} }

(***************************************************************************)
(* Requests.                                                               *)
(***************************************************************************)
\* A response: the HTTP status, the error raised, the fields of the sync
\* answer, the rows of the list answer; written is how many records of its
\* batch the request had executed when it ended.
NoResp == [status |-> 0, detail |-> "", inserted |-> 0, updated |-> 0,
           browser_id |-> 0, body |-> <<>>, written |-> 0]
Failed(status, detail) == [NoResp EXCEPT !.status = status, !.detail = detail]

\* The handler of r raises: the request ends with an error response and its
\* locals are gone.
Fails(r, status, detail) ==
    /\ pc' = [pc EXCEPT ![r] = "done"]
    /\ resp' = [resp EXCEPT ![r] =
                 [Failed(status, detail) EXCEPT
                    !.written = IF pc[r] = "loop" THEN idx[r] - 1 ELSE 0]]
    /\ payload' = [payload EXCEPT ![r] = NoPayload]
    /\ browser_id' = [browser_id EXCEPT ![r] = 0]
    /\ now' = [now EXCEPT ![r] = 0]
    /\ idx' = [idx EXCEPT ![r] = 0]
    /\ counts' = [counts EXCEPT ![r] = [inserted |-> 0, updated |-> 0]]
    /\ txn' = [txn EXCEPT ![r] = <<>>]
    /\ pre' = [pre EXCEPT ![r] = <<>>]

\* Handlers that do not take db_lock.
LockFree_always == TRUE
\* with db_lock: a request enters when no request holds the lock.
LockFree == db_lock = "free"

\* An acquire() whose release() is skipped when the block raises.
ReleaseOnRaise_held(r) == r
\* with db_lock: the lock is released when the block is left by an exception.
ReleaseOnRaise(r) == "free"

\* Requests of a kind are numbered in the order they arrive.
Earlier(r) ==
    IF r = "s2" THEN {"s1"} ELSE {}

\* Depends(get_token_from_header), run before either handler. lastCall keeps
\* the header the request came with and what verify_token said of its token.
Authenticate(r, authorization, readFails) ==
    /\ pc[r] = "idle"
    /\ \A q \in Earlier(r) : pc[q] # "idle"
    /\ cache' = CacheAfterHeader(authorization, readFails)
    /\ lastCall' = [op |-> "gate", req |-> r, authorization |-> authorization,
                    verified |-> (WellFormed(authorization)
                                  /\ verify_token(authorization[2], readFails))]
    /\ IF get_token_from_header(authorization, readFails) = 401
       THEN /\ pc' = [pc EXCEPT ![r] = "done"]
            /\ resp' = [resp EXCEPT ![r] = Failed(401, "Unauthorized")]
       ELSE /\ pc' = [pc EXCEPT ![r] = "handler"]
            /\ UNCHANGED resp
    /\ UNCHANGED <<tokenFile, fileExists, issued, dbVars,
                   payload, browser_id, now, idx, counts, txn, pre>>

\* sync_bookmarks, lines 236-251: the body is validated.
Validate(r, p) ==
    /\ r \in SyncReqs
    /\ pc[r] = "handler"
    /\ IF validate_sync_payload(p)
       THEN /\ payload' = [payload EXCEPT ![r] = p]
            /\ pc' = [pc EXCEPT ![r] = "resolve"]
            /\ UNCHANGED resp
       ELSE /\ pc' = [pc EXCEPT ![r] = "done"]
            /\ resp' = [resp EXCEPT ![r] = Failed(422, "Missing or invalid field")]
            /\ UNCHANGED payload
    /\ UNCHANGED <<authVars, dbVars, browser_id, now, idx, counts, txn, pre>>

\* get_or_create_browser_id, line 158: with db_lock.
ResolveAcquire(r) ==
    /\ pc[r] = "resolve"
    /\ LockFree
    /\ db_lock' = r
    /\ pc' = [pc EXCEPT ![r] = "select"]
    /\ UNCHANGED <<authVars, browsers, bookmarks, clock,
                   payload, browser_id, now, idx, counts, txn, pre, resp>>

\* get_or_create_browser_id, lines 159-170: the SELECT; a row found is returned.
ResolveSelect(r) ==
    /\ pc[r] = "select"
    /\ LET found == SelectBrowser(browsers, Triple(payload[r])) IN
       IF found # {}
       THEN /\ browser_id' = [browser_id EXCEPT ![r] = CHOOSE i \in found : TRUE]
            /\ db_lock' = "free"
            /\ pc' = [pc EXCEPT ![r] = "stamp"]
       ELSE /\ pc' = [pc EXCEPT ![r] = "insert"]
            /\ UNCHANGED <<browser_id, db_lock>>
    /\ UNCHANGED <<authVars, browsers, bookmarks, clock,
                   payload, now, idx, counts, txn, pre, resp>>

\* get_or_create_browser_id, lines 171-179: INSERT, commit, return lastrowid.
\* UNIQUE(name, device_name, profile_name) refuses a second row of a triple.
ResolveInsert(r) ==
    /\ pc[r] = "insert"
    /\ db_lock' = "free"
    /\ IF SelectBrowser(browsers, Triple(payload[r])) # {}
       THEN /\ Fails(r, 500, "IntegrityError")
            /\ UNCHANGED browsers
       ELSE /\ browsers' = Append(browsers, Triple(payload[r]))
            /\ browser_id' = [browser_id EXCEPT ![r] = Len(browsers) + 1]
            /\ pc' = [pc EXCEPT ![r] = "stamp"]
            /\ UNCHANGED <<payload, now, idx, counts, txn, pre, resp>>
    /\ UNCHANGED <<authVars, bookmarks, clock>>

\* get_or_create_browser_id: the INSERT or the commit raises
\* sqlite3.OperationalError; nothing is committed, the lock is released.
ResolveFail(r) ==
    /\ pc[r] = "insert"
    /\ db_lock' = ReleaseOnRaise(r)
    /\ Fails(r, 500, "OperationalError")
    /\ UNCHANGED <<authVars, browsers, bookmarks, clock>>

\* sync_bookmarks, line 260: now = datetime.utcnow().isoformat(). Time has
\* passed since the previous reading, or has not.
Stamp(r, passed) ==
    /\ pc[r] = "stamp"
    /\ clock' = clock + passed
    /\ now' = [now EXCEPT ![r] = clock + passed]
    /\ pc' = [pc EXCEPT ![r] = "batch"]
    /\ UNCHANGED <<authVars, browsers, bookmarks, db_lock,
                   payload, browser_id, idx, counts, txn, pre, resp>>

\* sync_bookmarks, lines 262-266: with db_lock, a new connection.
BatchAcquire(r) ==
    /\ pc[r] = "batch"
    /\ LockFree
    /\ db_lock' = r
    /\ txn' = [txn EXCEPT ![r] = bookmarks]
    /\ pre' = [pre EXCEPT ![r] = bookmarks]
    /\ idx' = [idx EXCEPT ![r] = 1]
    /\ counts' = [counts EXCEPT ![r] = [inserted |-> 0, updated |-> 0]]
    /\ pc' = [pc EXCEPT ![r] = "loop"]
    /\ UNCHANGED <<authVars, browsers, bookmarks, clock,
                   payload, browser_id, now, resp>>

\* sync_bookmarks, lines 268-308: one record of the batch, in the open
\* transaction.
LoopStep(r) ==
    /\ pc[r] = "loop"
    /\ idx[r] <= Len(payload[r].bookmarks)
    /\ LET b == payload[r].bookmarks[idx[r]] IN
        /\ txn' = [txn EXCEPT ![r] = ApplyRecord(@, browser_id[r], b, now[r])]
        /\ counts' = [counts EXCEPT ![r] =
                        IF IsUpdate(txn[r], browser_id[r], b)
                        THEN [@ EXCEPT !.updated = @ + 1]
                        ELSE [@ EXCEPT !.inserted = @ + 1]]
    /\ idx' = [idx EXCEPT ![r] = @ + 1]
    /\ UNCHANGED <<authVars, dbVars, pc, payload, browser_id, now, pre, resp>>

\* A connection in autocommit mode: every statement run so far stays.
AfterRollback_partial(committed, open) == open
\* What table bookmarks holds once a transaction has ended without commit.
AfterRollback(committed, open) == committed

\* sync_bookmarks: a statement of the loop or the commit raises
\* sqlite3.OperationalError. The connection is dropped uncommitted, the lock
\* is released.
LoopFail(r) ==
    /\ pc[r] = "loop"
    /\ bookmarks' = AfterRollback(bookmarks, txn[r])
    /\ db_lock' = ReleaseOnRaise(r)
    /\ Fails(r, 500, "OperationalError")
    /\ UNCHANGED <<authVars, browsers, clock>>

\* sync_bookmarks, lines 310-317: conn.commit(), the lock is released, the
\* counts are returned.
Commit(r) ==
    /\ pc[r] = "loop"
    /\ idx[r] > Len(payload[r].bookmarks)
    /\ bookmarks' = txn[r]
    /\ db_lock' = "free"
    /\ txn' = [txn EXCEPT ![r] = <<>>]
    /\ pc' = [pc EXCEPT ![r] = "done"]
    /\ resp' = [resp EXCEPT ![r] =
                 [NoResp EXCEPT !.status = 200,
                                !.inserted = counts[r].inserted,
                                !.updated = counts[r].updated,
                                !.browser_id = browser_id[r],
                                !.written = idx[r] - 1]]
    /\ idx' = [idx EXCEPT ![r] = 0]
    /\ counts' = [counts EXCEPT ![r] = [inserted |-> 0, updated |-> 0]]
    /\ UNCHANGED <<authVars, browsers, clock, payload, browser_id, now, pre>>

\* list_bookmarks, line 326: with db_lock.
ListAcquire(r) ==
    /\ r \in ListReqs
    /\ pc[r] = "handler"
    /\ LockFree
    /\ db_lock' = r
    /\ pc' = [pc EXCEPT ![r] = "query"]
    /\ UNCHANGED <<authVars, browsers, bookmarks, clock,
                   payload, browser_id, now, idx, counts, txn, pre, resp>>

\* A list query that stamps the rows it returns as touched.
ListQuery_touch(r) ==
    /\ pc[r] = "query"
    /\ \E rows \in OrderByUpdatedDesc(bookmarks, browsers, 1..Len(bookmarks)) :
        resp' = [resp EXCEPT ![r] = [NoResp EXCEPT !.status = 200, !.body = rows]]
    /\ bookmarks' = [i \in 1..Len(bookmarks) |->
                        [bookmarks[i] EXCEPT !.updated_at = clock + 1]]
    /\ db_lock' = "free"
    /\ pc' = [pc EXCEPT ![r] = "done"]
    /\ UNCHANGED <<authVars, browsers, clock,
                   payload, browser_id, now, idx, counts, txn, pre>>

\* list_bookmarks, lines 327-339: the SELECT on a new connection, which sees
\* committed rows only; the lock is released.
ListQuery(r) ==
    /\ pc[r] = "query"
    /\ \E rows \in OrderByUpdatedDesc(bookmarks, browsers, 1..Len(bookmarks)) :
        resp' = [resp EXCEPT ![r] = [NoResp EXCEPT !.status = 200, !.body = rows]]
    /\ db_lock' = "free"
    /\ pc' = [pc EXCEPT ![r] = "done"]
    /\ UNCHANGED <<authVars, browsers, bookmarks, clock,
                   payload, browser_id, now, idx, counts, txn, pre>>

InitDb ==
    /\ browsers = <<>>
    /\ bookmarks = <<>>
    /\ db_lock = "free"
    /\ clock = 0
    /\ pc = [r \in Reqs |-> "idle"]
    /\ payload = [r \in Reqs |-> NoPayload]
    /\ browser_id = [r \in Reqs |-> 0]
    /\ now = [r \in Reqs |-> 0]
    /\ idx = [r \in Reqs |-> 0]
    /\ counts = [r \in Reqs |-> [inserted |-> 0, updated |-> 0]]
    /\ txn = [r \in Reqs |-> <<>>]
    /\ pre = [r \in Reqs |-> <<>>]
    /\ resp = [r \in Reqs |-> NoResp]

\* The state after construction: no token file, empty tables.
Init ==
    /\ tokenFile = <<>>
    /\ fileExists = FALSE
    /\ cache = <<>>
    /\ issued = {}
    /\ lastCall = NoCall
    /\ InitDb

\* The state after one successful POST /api/auth/token, which returned "t1".
InitSync ==
    /\ tokenFile = <<hash_token("t1")>>
    /\ fileExists = TRUE
    /\ cache = <<>>
    /\ issued = {"t1"}
    /\ lastCall = NoCall
    /\ InitDb

\* Calls of the token functions.
NextAuth ==
    \/ \E failAt \in {"none", "open", "write"} : create_token(failAt)
    \/ \E c \in Candidates, readFails \in BOOLEAN : VerifyCall(c, readFails)

\* Steps of a sync request r whose body is drawn from P.
SyncStep(r, P) ==
    \/ \E h \in Headers, readFails \in BOOLEAN : Authenticate(r, h, readFails)
    \/ \E p \in P : Validate(r, p)
    \/ ResolveAcquire(r)
    \/ ResolveSelect(r)
    \/ ResolveInsert(r)
    \/ ResolveFail(r)
    \/ \E passed \in {0, 1} : Stamp(r, passed)
    \/ BatchAcquire(r)
    \/ LoopStep(r)
    \/ LoopFail(r)
    \/ Commit(r)

\* Steps of a list request r.
ListStep(r) ==
    \/ \E h \in Headers, readFails \in BOOLEAN : Authenticate(r, h, readFails)
    \/ ListAcquire(r)
    \/ ListQuery(r)

\* Concurrent sync requests.
NextSync == \E r \in SyncReqs : SyncStep(r, Payloads)

\* The bodies sent in runs that are followed to their end.
LivePayloads ==
    {Body("chrome", "laptop", "default", bms) :
        bms \in SeqsUpTo({Bookmark("http://a", "A", Missing, "2024-01-01"),
                          Bookmark("http://a", "B", None, None)}, MaxBatch)}

\* Concurrent sync and list requests, followed to their end.
NextLive ==
    \/ \E r \in SyncReqs : SyncStep(r, LivePayloads)
    \/ \E r \in ListReqs : ListStep(r)

\* The steps a request that is past validation takes on its own thread:
\* taking the lock and everything up to its answer.
Proceed(r) ==
    \/ ResolveAcquire(r) \/ ResolveSelect(r) \/ ResolveInsert(r) \/ ResolveFail(r)
    \/ (\E passed \in {0, 1} : Stamp(r, passed))
    \/ BatchAcquire(r) \/ LoopStep(r) \/ LoopFail(r) \/ Commit(r)
    \/ ListAcquire(r) \/ ListQuery(r)

\* Concurrent sync and list requests.
NextServe ==
    \/ \E r \in SyncReqs : SyncStep(r, FewPayloads)
    \/ \E r \in ListReqs : ListStep(r)

Next == NextAuth \/ NextSync \/ NextServe \/ NextLive

\* The token functions alone, from the state after construction.
SpecAuth == Init /\ [][NextAuth]_vars
\* Sync requests, with a token issued.
SpecSync == InitSync /\ [][NextSync]_vars
\* Sync and list requests, with a token issued.
SpecServe == InitSync /\ [][NextServe]_vars
\* Sync and list requests on worker threads each of which gets to run.
SpecLive ==
    InitSync /\ [][NextLive]_vars /\ \A r \in Reqs : WF_vars(Proceed(r))
\* The whole program.
Spec == Init /\ [][Next]_vars

(***************************************************************************)
(* Claims about the token store, checked under SpecAuth.                   *)
(***************************************************************************)

\* C1: whenever verify_token answers without a failed read of the trust
\* store, its answer is true exactly when the digest of the candidate is in
\* the trust store at that moment; a cached answer is what a fresh lookup
\* would give.
C1_VerifyIffPresent ==
    (lastCall.op = "verify" /\ ~lastCall.readFailed)
        => (lastCall.result <=> lastCall.present)

\* C8: create_token either appended the digest and returns the token, or
\* fails, returns no token and leaves the trust store as it was; a returned
\* token always has its digest in the trust store.
C8_IssueAllOrNothing ==
    lastCall.op = "issue" =>
        \/ /\ lastCall.status = 200
           /\ lastCall.token # None
           /\ hash_token(lastCall.token) \in StoreDigests
        \/ /\ lastCall.status # 200
           /\ lastCall.token = None
           /\ StoreDigests = lastCall.storeBefore

\* C9: a verify_token call during which reading the trust store fails
\* returns false.
C9_FailClosed ==
    (lastCall.op = "verify" /\ lastCall.readFailed) => lastCall.result = FALSE

\* C9 witness: the read fails while verifying a token whose digest is in
\* the trust store, and the call answers false.
C9_Witness ==
    /\ lastCall.op = "verify"
    /\ lastCall.readFailed
    /\ lastCall.present
    /\ lastCall.result = FALSE

\* C10: verify_token of a token create_token returned is true, of a string
\* never issued is false, of the empty string or None is false (reads of
\* the trust store succeeding).
C10_TokenLifecycle ==
    (lastCall.op = "verify" /\ ~lastCall.readFailed) =>
        /\ (lastCall.arg \in issued => lastCall.result = TRUE)
        /\ (lastCall.arg \notin issued => lastCall.result = FALSE)
        /\ (lastCall.arg \in {"", None} => lastCall.result = FALSE)

(***************************************************************************)
(* Claims about identities and bookmarks, under SpecSync and SpecServe.    *)
(***************************************************************************)
\* Request r has been answered 200.
Served(r) == pc[r] = "done" /\ resp[r].status = 200
\* Request r holds a browser_id that get_or_create_browser_id returned.
Resolved(r) == pc[r] \in {"stamp", "batch", "loop"} \/ Served(r)
\* The normalized (url, folder_path) key of an incoming record.
KeyOf(b) == <<b.url, OrEmpty(Get(b, "folder_path", ""))>>
\* The ids of the rows of a table that carry a key under an identity.
RowsWithKey(rows, bid, key) ==
    {i \in 1..Len(rows) :
        rows[i].browser_id = bid /\ rows[i].url = key[1] /\ rows[i].folder_path = key[2]}

\* C2: no two rows of browsers share a triple, every request that has
\* resolved its triple holds the id of the one row of that triple, and no
\* request is refused by the uniqueness constraint.
C2_OneIdentityPerTriple ==
    /\ \A i, j \in 1..Len(browsers) : browsers[i] = browsers[j] => i = j
    /\ \A r \in SyncReqs :
        Resolved(r) => /\ browser_id[r] \in 1..Len(browsers)
                       /\ browsers[browser_id[r]] = Triple(payload[r])
    /\ \A r \in SyncReqs : resp[r].detail # "IntegrityError"

\* C2 witness: two requests in flight together have both resolved the
\* same triple and hold the same id, with one row in browsers.
C2_Witness ==
    /\ pc["s1"] = "stamp" /\ pc["s2"] = "stamp"
    /\ Triple(payload["s1"]) = Triple(payload["s2"])
    /\ browser_id["s1"] = browser_id["s2"]
    /\ Len(browsers) = 1

\* A table has one row at most per (browser_id, url, folder_path) and no
\* row with a null folder_path.
KeysUnique(rows) ==
    /\ \A i, j \in 1..Len(rows) :
        (/\ rows[i].browser_id = rows[j].browser_id
         /\ rows[i].url = rows[j].url
         /\ rows[i].folder_path = rows[j].folder_path) => i = j
    /\ \A i \in 1..Len(rows) : rows[i].folder_path # None

\* C3: the committed table bookmarks, and the table as any open transaction
\* sees it, holds at most one row per (identity id, url, folder_path) and no
\* row whose folder_path is null.
C3_DedupKey ==
    /\ KeysUnique(bookmarks)
    /\ \A r \in SyncReqs : KeysUnique(txn[r])

\* C3 witness: batches giving folder_path as absent, as null and as "" have
\* been reconciled for one identity, and the absent and the null one ended
\* in one row.
C3_Witness ==
    /\ Served("s1") /\ Served("s2")
    /\ browser_id["s1"] = browser_id["s2"]
    /\ \E i \in 1..Len(payload["s1"].bookmarks) :
        payload["s1"].bookmarks[i].folder_path = Missing
    /\ \E i \in 1..Len(payload["s1"].bookmarks) :
        payload["s1"].bookmarks[i].folder_path = ""
    /\ \E i \in 1..Len(payload["s2"].bookmarks) :
        payload["s2"].bookmarks[i].folder_path = None
    /\ Cardinality(RowsWithKey(bookmarks, browser_id["s1"], <<"http://a", "">>)) = 1
    /\ Len(bookmarks) = 2

\* C4: the committed table changes only by the commit of a whole batch, to
\* what the whole batch makes of it; a batch that fails leaves it as it was
\* when the batch began; while a batch is in flight none of its writes is
\* committed, and a list request returns the committed rows.
C4_BatchAtomic ==
    [][ /\ bookmarks' # bookmarks =>
            \E r \in SyncReqs :
                /\ pc[r] = "loop" /\ idx[r] > Len(payload[r].bookmarks)
                /\ resp'[r].status = 200
                /\ bookmarks' = Reconcile(bookmarks, browser_id[r],
                                          payload[r].bookmarks, now[r])
        /\ \A r \in SyncReqs :
            (pc[r] = "loop" /\ resp'[r].status = 500) => bookmarks' = pre[r]
        /\ \A r \in SyncReqs : pc[r] = "loop" => bookmarks = pre[r]
        /\ \A q \in ListReqs :
            (pc[q] = "query" /\ pc'[q] = "done") =>
                Range(resp'[q].body) =
                    {JoinRow(bookmarks, browsers, i) : i \in 1..Len(bookmarks)}
      ]_vars

\* C4 witness: a batch has failed after one of its records was written,
\* a list request has been answered, and no row is committed.
C4_Witness ==
    /\ \E r \in SyncReqs : resp[r].status = 500 /\ resp[r].written >= 1
    /\ \E q \in ListReqs : Served(q)
    /\ bookmarks = <<>>

\* The records of a batch have pairwise different normalized keys.
DistinctKeys(batch) ==
    \A i, j \in 1..Len(batch) : KeyOf(batch[i]) = KeyOf(batch[j]) => i = j

\* Two rows agree in every field but updated_at.
SameButUpdatedAt(x, y) ==
    /\ x.browser_id = y.browser_id /\ x.title = y.title /\ x.url = y.url
    /\ x.folder_path = y.folder_path /\ x.created_at = y.created_at

\* Request r1 reconciled a batch against the empty table and r2 then
\* reconciled the same batch for the same identity against the result.
Twice(r1, r2) ==
    /\ r1 # r2 /\ Served(r1) /\ Served(r2)
    /\ payload[r1] = payload[r2]
    /\ pre[r1] = <<>>
    /\ pre[r2] = Reconcile(<<>>, browser_id[r1], payload[r1].bookmarks, now[r1])

\* What idempotence promises of such a pair.
Idempotent(r1, r2) ==
    LET n == Len(payload[r1].bookmarks) IN
    /\ resp[r1].inserted = n /\ resp[r1].updated = 0
    /\ resp[r2].inserted = 0 /\ resp[r2].updated = n
    /\ Len(bookmarks) = Len(pre[r2])
    /\ \A i \in 1..Len(bookmarks) : SameButUpdatedAt(bookmarks[i], pre[r2][i])

\* C5 as stated: any batch of N records reconciled twice from the empty
\* table returns inserted=N, updated=0 and then inserted=0, updated=N, the
\* rows being the same but for updated_at.
C5_IdempotentAnyBatch ==
    \A r1, r2 \in SyncReqs : Twice(r1, r2) => Idempotent(r1, r2)

\* C5 amended: the same, for batches whose records have pairwise different
\* normalized (url, folder_path) keys.
C5_IdempotentDistinctKeys ==
    \A r1, r2 \in SyncReqs :
        (Twice(r1, r2) /\ DistinctKeys(payload[r1].bookmarks)) => Idempotent(r1, r2)

\* C5 witness: a batch of two records with different keys has been
\* reconciled twice from the empty table.
C5_Witness ==
    \E r1, r2 \in SyncReqs :
        /\ Twice(r1, r2)
        /\ DistinctKeys(payload[r1].bookmarks)
        /\ Len(payload[r1].bookmarks) = 2
        /\ resp[r2].updated = 2

\* C6: a record that matches a row leaves the row's created_at the incoming
\* created_at when that is not null and as it was otherwise; a committed
\* row whose created_at is not null never has a null created_at later.
C6_Coalesce ==
    [][ /\ \A r \in SyncReqs :
            (pc[r] = "loop" /\ idx'[r] = idx[r] + 1) =>
                LET b == payload[r].bookmarks[idx[r]]
                    hit == RowsWithKey(txn[r], browser_id[r], KeyOf(b))
                    incoming == Get(b, "created_at", None)
                IN  \A i \in hit :
                        txn'[r][i].created_at =
                            IF incoming # None THEN incoming ELSE txn[r][i].created_at
        /\ Len(bookmarks') >= Len(bookmarks)
        /\ \A i \in 1..Len(bookmarks) :
            bookmarks[i].created_at # None => bookmarks'[i].created_at # None
      ]_vars

\* C6 witness: a row inserted with created_at "2024-01-01" has been updated
\* by a record whose created_at is null and still carries "2024-01-01".
C6_Witness ==
    \E r1, r2 \in SyncReqs :
        /\ Served(r1) /\ Served(r2)
        /\ payload[r1].bookmarks = <<Bookmark("http://a", "A", Missing, "2024-01-01")>>
        /\ payload[r2].bookmarks = <<Bookmark("http://a", "B", None, None)>>
        /\ browser_id[r1] = browser_id[r2]
        /\ bookmarks = <<[browser_id |-> browser_id[r1], title |-> "B",
                          url |-> "http://a", folder_path |-> "",
                          created_at |-> "2024-01-01", updated_at |-> now[r2]]>>

\* The position of the last record of a batch with a key.
LastWithKey(batch, key) ==
    CHOOSE i \in 1..Len(batch) :
        /\ KeyOf(batch[i]) = key
        /\ \A j \in 1..Len(batch) : KeyOf(batch[j]) = key => j <= i

\* C7: when a batch with two or more records of one key is committed, the
\* table holds one row of that key for the identity, with the title of the
\* last such record of the batch, and every record was counted once.
C7_LastWriteWins ==
    [][ \A r \in SyncReqs :
            (pc[r] = "loop" /\ pc'[r] = "done" /\ resp'[r].status = 200) =>
                LET batch == payload[r].bookmarks IN
                /\ resp'[r].inserted + resp'[r].updated = Len(batch)
                /\ \A i, j \in 1..Len(batch) :
                    (i < j /\ KeyOf(batch[i]) = KeyOf(batch[j])) =>
                        LET hit == RowsWithKey(bookmarks', browser_id[r], KeyOf(batch[i]))
                            last == batch[LastWithKey(batch, KeyOf(batch[i]))]
                        IN  /\ Cardinality(hit) = 1
                            /\ \A k \in hit : bookmarks'[k].title = Get(last, "title", "")
      ]_vars

\* C7 witness: a batch of two records with one key and the titles "A" then
\* "B" has been committed to an empty table, which holds one row, titled "B".
C7_Witness ==
    \E r \in SyncReqs :
        /\ Served(r)
        /\ Len(payload[r].bookmarks) = 2
        /\ KeyOf(payload[r].bookmarks[1]) = KeyOf(payload[r].bookmarks[2])
        /\ payload[r].bookmarks[1].title = "A"
        /\ payload[r].bookmarks[2].title = "B"
        /\ resp[r].inserted = 1 /\ resp[r].updated = 1
        /\ Len(bookmarks) = 1 /\ bookmarks[1].title = "B"

FailedSync(r) == pc[r] = "done" /\ resp[r].status \in {400, 422, 500}

\* C12: when a sync request has ended in failure and no other request has
\* started since construction, tables browsers and bookmarks are as they
\* were before the request: empty.
C12_NoPartialMutation ==
    \A r \in SyncReqs :
        (FailedSync(r) /\ \A q \in SyncReqs \ {r} : pc[q] = "idle")
            => (browsers = <<>> /\ bookmarks = <<>>)

\* C13: the rows a list request was answered with carry pairwise different
\* ids, updated_at does not increase along them, and of two rows with equal
\* updated_at the one with the smaller id comes first.
C13_ListOrder ==
    \A q \in ListReqs :
        Served(q) =>
            \A i, j \in 1..Len(resp[q].body) :
                i < j =>
                    LET x == resp[q].body[i]
                        y == resp[q].body[j]
                    IN  /\ x.id # y.id
                        /\ \/ x.updated_at > y.updated_at
                           \/ x.updated_at = y.updated_at /\ x.id < y.id

\* C14: every row of browsers has a name, a device_name and a profile_name
\* that are non-empty strings, and no request whose triple has an empty or
\* absent component is past validation.
C14_NonEmptyTriple ==
    /\ \A i \in 1..Len(browsers) :
        \A k \in 1..3 : browsers[i][k] \notin {"", None, Missing}
    /\ \A r \in SyncReqs :
        pc[r] \in {"resolve", "select", "insert"} =>
            \A k \in 1..3 : Triple(payload[r])[k] \notin {"", None, Missing}

\* The orders a batch of different records can be sent in.
Reorderings(batch) ==
    {q \in SeqsUpTo(Range(batch), Len(batch)) : Len(q) = Len(batch)}
\* The rows of a table without their ids.
RowState(rows) == Range(rows)

\* C15: for a committed batch whose records have pairwise different keys,
\* reconciling any permutation of it against the table the batch began
\* with, with the same identity and timestamp, gives the counts the request
\* returned and the same rows (title, url, folder_path, created_at,
\* updated_at per key) as the batch itself.
C15_OrderIndependent ==
    \A r \in SyncReqs :
        (Served(r) /\ DistinctKeys(payload[r].bookmarks)) =>
            \A q \in Reorderings(payload[r].bookmarks) :
                /\ RowState(Reconcile(pre[r], browser_id[r], q, now[r]))
                    = RowState(Reconcile(pre[r], browser_id[r],
                                         payload[r].bookmarks, now[r]))
                /\ Updated(pre[r], browser_id[r], q, now[r]) = resp[r].updated
                /\ Len(q) - Updated(pre[r], browser_id[r], q, now[r]) = resp[r].inserted

\* C15 witness: a batch of two records with different keys was committed
\* to a table that held a row for one of them, so one record updated and
\* the other inserted, and the batch has another order.
C15_Witness ==
    \E r \in SyncReqs :
        /\ Served(r) /\ DistinctKeys(payload[r].bookmarks)
        /\ Len(payload[r].bookmarks) = 2
        /\ Cardinality(Reorderings(payload[r].bookmarks)) = 2
        /\ pre[r] # <<>>
        /\ resp[r].inserted = 1 /\ resp[r].updated = 1

\* C16: rows of browsers are never removed or changed, so an id keeps its
\* triple; a resolution that finds the row of its triple returns that row's
\* id and leaves both tables as they were; every resolution returns an id
\* whose row carries the triple asked for, and requests that resolved one
\* triple hold one id.
C16_IdentityStable ==
    [][ /\ Len(browsers') >= Len(browsers)
        /\ \A i \in 1..Len(browsers) : browsers'[i] = browsers[i]
        /\ \A r \in SyncReqs :
            (/\ pc[r] = "select" /\ pc'[r] # "select"
             /\ SelectBrowser(browsers, Triple(payload[r])) # {}) =>
                /\ pc'[r] = "stamp"
                /\ browser_id'[r] \in SelectBrowser(browsers, Triple(payload[r]))
                /\ browsers' = browsers /\ bookmarks' = bookmarks
        /\ \A r \in SyncReqs :
            (pc[r] \in {"select", "insert"} /\ pc'[r] = "stamp") =>
                browsers'[browser_id'[r]] = Triple(payload[r])
        /\ \A r1, r2 \in SyncReqs :
            (Resolved(r1) /\ Resolved(r2) /\ Triple(payload[r1]) = Triple(payload[r2]))
                => browser_id[r1] = browser_id[r2]
      ]_vars

\* C16 witness: a request that resolved a triple has been answered, another
\* request has resolved the same triple and holds the id the first was
\* given, and the bookmarks the first committed are in place.
C16_Witness ==
    /\ Served("s1") /\ pc["s2"] = "stamp"
    /\ Triple(payload["s1"]) = Triple(payload["s2"])
    /\ browser_id["s2"] = resp["s1"].browser_id
    /\ bookmarks # <<>>

\* C19: no commit lowers the updated_at of a row: a batch applied to a row
\* after another batch writes an updated_at greater than or equal to the
\* one the row had.
C19_UpdatedAtMonotone ==
    [][ \A i \in 1..Len(bookmarks) :
            /\ i <= Len(bookmarks')
            /\ bookmarks'[i].updated_at >= bookmarks[i].updated_at
      ]_vars

(***************************************************************************)
(* Claims about db_lock.                                                   *)
(***************************************************************************)
\* Request r is inside a with db_lock block: identity resolution, batch
\* reconciliation or the list query.
InCritical(r) == pc[r] \in {"select", "insert", "loop", "query"}
\* Request r stands before a with db_lock block.
Waiting(r) ==
    \/ pc[r] \in {"resolve", "batch"}
    \/ r \in ListReqs /\ pc[r] = "handler"

\* C17: at most one request is inside a with db_lock block, that request
\* is the holder of db_lock, and the lock is free when none is inside.
C17_MutualExclusion ==
    /\ \A r1, r2 \in Reqs : (InCritical(r1) /\ InCritical(r2)) => r1 = r2
    /\ \A r \in Reqs : InCritical(r) <=> db_lock = r

\* C17 witness: one sync request is in the loop of its batch while the
\* other sync request and the list request stand before the lock.
C17_Witness ==
    /\ \E r \in SyncReqs : pc[r] = "loop" /\ idx[r] = 2
    /\ \E r \in SyncReqs : pc[r] = "resolve"
    /\ \E q \in ListReqs : Waiting(q)

\* C18: no step of a list request (its authentication, taking the lock,
\* the query) changes table browsers, table bookmarks, the rows an open
\* transaction has written, or auth_tokens.txt.
C18_ListReadOnly ==
    [][ \A q \in ListReqs :
            pc'[q] # pc[q] =>
                /\ browsers' = browsers
                /\ bookmarks' = bookmarks
                /\ txn' = txn
                /\ tokenFile' = tokenFile /\ fileExists' = fileExists
      ]_vars

\* C18 witness: a list request has been answered with a row while a sync
\* request that holds an identity stands before its batch, and the table
\* holds that row.
C18_Witness ==
    \E q \in ListReqs :
        /\ Served(q) /\ Len(resp[q].body) = 1
        /\ \E r \in SyncReqs : pc[r] = "batch"
        /\ Len(bookmarks) = 1
        /\ resp[q].body[1] = JoinRow(bookmarks, browsers, 1)

\* C20: a request that stands before a with db_lock block eventually is
\* inside it, a request inside one eventually is outside, whether the block
\* returns or raises; no request stands before the lock while holding it,
\* and the lock is held only by a request inside a block.
C20_NoBlockForever ==
    /\ \A r \in Reqs : Waiting(r) ~> InCritical(r)
    /\ \A r \in Reqs : InCritical(r) ~> ~InCritical(r)
    /\ [](\A r \in Reqs : Waiting(r) => db_lock # r)
    /\ [](\A r \in Reqs : db_lock = r => InCritical(r))

\* C20 witness: a sync request whose batch failed has been answered 500,
\* after which the list request holds the lock and the other sync request
\* stands before its second block.
C20_Witness ==
    /\ \E r \in SyncReqs : resp[r].status = 500 /\ resp[r].written >= 1
    /\ \E r \in SyncReqs : pc[r] = "batch"
    /\ \E q \in ListReqs : pc[q] = "query" /\ db_lock = q

=============================================================================
